---- MODULE Spec2Model ----
(***************************************************************************)
(* The highlight overlay of the editor: the Quill document held by         *)
(* Editor.jsx, the click listener that dismisses a highlight, the          *)
(* Ctrl+Enter submit gesture, and handleTextSubmit of App, which posts the *)
(* text to the feedback API and rewrites the highlights from the answer.   *)
(*                                                                         *)
(* The document is a sequence of characters.  Each character carries its   *)
(* kind (text or line break), the highlight format and one other format    *)
(* (bold, underline on text; header on a line break).  Indices are         *)
(* 0-based as in Quill; the sequence is 1-based, so index i is doc[i+1].   *)
(***************************************************************************)
EXTENDS Integers, Sequences, FiniteSets

VARIABLES doc, quillRef, req, edits, clicks, last, rerender

vars == <<doc, quillRef, req, edits, clicks, last, rerender>>

\* ------------------------------------------------------------------ bounds
\* MaxGestures bounds the gestures of the user (submit, edit, click), MaxSpans the
\* elements of a body, MaxSpanLen the length a scorer gives a span.
MaxGestures == 2
MaxSpans == 2
MaxSpanLen == 3

Max(a, b) == IF a >= b THEN a ELSE b
Min(a, b) == IF a <= b THEN a ELSE b

\* --------------------------------------------------------------- documents
Ch(c, f, h) == [ch |-> c, fmt |-> f, hl |-> h]

\* new Delta().insert(text, attributes).  The default document is kept at
\* scale: one character stands for each piece of text and two for the
\* highlighted piece; the plain pieces of the second line ('Some ', ' ' and
\* ' and ') are left out.
Insert(n, c, f, h) == [k \in 1..n |-> Ch(c, f, h)]

\* The defaultValue App passes to Editor, which Editor hands to setContents.
DefaultValue ==
    Insert(1, "c", "none", FALSE)          \* 'Hello'
    \o Insert(1, "\n", "header", FALSE)    \* '\n' { header: 1 }
    \o Insert(1, "c", "bold", FALSE)       \* 'initial' { bold: true }
    \o Insert(2, "c", "none", TRUE)        \* 'highlighted text' { highlight: true }
    \o Insert(1, "c", "underline", FALSE)  \* 'content' { underline: true }
    \o Insert(1, "\n", "none", FALSE)      \* '\n'

\* quill.getText(): the plain text, line breaks included.
getText(d) == [p \in 1..Len(d) |-> d[p].ch]

\* The indices that carry the highlight format.
Highlighted(d) == {i \in 0..(Len(d) - 1) : d[i + 1].hl}

\* ------------------------------------------------------------ Quill calls
\* quill.formatText(index, length, 'highlight', value).  Quill walks the
\* lines the range meets; a line applies an inline format to its text and
\* never to its line break, and a range that runs past the end of the
\* document stops there.  A non-positive length formats nothing, a negative
\* index starts the walk at the head of the document, and an index at or
\* past the end finds no line to start from and formats nothing.
\* formatText with the end of the range taken inclusively.
formatTextInclusive(d, index, length, value) ==
    IF length <= 0 \/ index >= Len(d) THEN d
    ELSE LET from == Max(index, 0)
             to == index + length
         IN [p \in 1..Len(d) |->
                IF from <= p - 1 /\ p - 1 <= to /\ d[p].ch # "\n"
                THEN [d[p] EXCEPT !.hl = value]
                ELSE d[p]]

\* formatText that starts over at the head of the document when index is at
\* or past the end.
formatTextFromHead(d, index, length, value) ==
    IF length <= 0 THEN d
    ELSE LET from == IF index >= Len(d) THEN 0 ELSE Max(index, 0)
             to == IF index >= Len(d) THEN length ELSE index + length
         IN [p \in 1..Len(d) |->
                IF from <= p - 1 /\ p - 1 < to /\ d[p].ch # "\n"
                THEN [d[p] EXCEPT !.hl = value]
                ELSE d[p]]

\* formatText that drops the other format of the text it formats.
formatTextPlain(d, index, length, value) ==
    IF length <= 0 \/ index >= Len(d) THEN d
    ELSE LET from == Max(index, 0)
             to == index + length
         IN [p \in 1..Len(d) |->
                IF from <= p - 1 /\ p - 1 < to /\ d[p].ch # "\n"
                THEN [d[p] EXCEPT !.hl = value, !.fmt = "none"]
                ELSE d[p]]

formatText(d, index, length, value) ==
    IF length <= 0 \/ index >= Len(d) THEN d
    ELSE LET from == Max(index, 0)
             to == index + length
         IN [p \in 1..Len(d) |->
                IF from <= p - 1 /\ p - 1 < to /\ d[p].ch # "\n"
                THEN [d[p] EXCEPT !.hl = value]
                ELSE d[p]]

\* Two characters Quill keeps in one text leaf: text of one line with the
\* same formats.
SameLeaf(a, b) ==
    a.ch # "\n" /\ b.ch # "\n" /\ a.fmt = b.fmt /\ a.hl = b.hl

RECURSIVE LeafStart(_, _)
LeafStart(d, i) ==
    IF i > 0 /\ SameLeaf(d[i], d[i + 1]) THEN LeafStart(d, i - 1) ELSE i

RECURSIVE LeafEnd(_, _)
LeafEnd(d, i) ==
    IF i + 2 <= Len(d) /\ SameLeaf(d[i + 1], d[i + 2]) THEN LeafEnd(d, i + 1) ELSE i + 1

\* quill.getLeaf(index), then quill.getIndex(leaf) and leaf.text.length:
\* the leaf that holds the character at index, as [index, length]; no leaf
\* (null) at a line break or past the end.
NoLeaf == [found |-> FALSE, index |-> 0, length |-> 0]

\* getLeaf that stops at the character itself.
getLeafChar(d, index) ==
    IF index < 0 \/ index >= Len(d) THEN NoLeaf
    ELSE IF d[index + 1].ch = "\n" THEN NoLeaf
    ELSE [found |-> TRUE, index |-> index, length |-> 1]

getLeaf(d, index) ==
    IF index < 0 \/ index >= Len(d) THEN NoLeaf
    ELSE IF d[index + 1].ch = "\n" THEN NoLeaf
    ELSE [found |-> TRUE,
          index |-> LeafStart(d, index),
          length |-> LeafEnd(d, index) - LeafStart(d, index)]

\* ------------------------------------------------------ decoded responses
\* What response.json() can resolve to: an array, or a value that is not an
\* array (an object such as {}, or null).  An element of an array is a pair
\* of two numbers, an iterable whose first two entries are not both numbers
\* ("ab", ['a', 'b'], []), or a value that cannot be destructured at all
\* (5, null, {}).
Pair(s, l) == [k |-> "pair", start |-> s, length |-> l]
NotNumbers == [k |-> "notNumbers", start |-> 0, length |-> 0]
NotIterable == [k |-> "notIterable", start |-> 0, length |-> 0]

Array(es) == [shape |-> "array", elems |-> es]
Object == [shape |-> "object", elems |-> <<>>]
Null == [shape |-> "null", elems |-> <<>>]
NoResult == [shape |-> "none", elems |-> <<>>]

\* result.forEach(([start, length]) => { if (...) quill.formatText(...) }),
\* from element i on.  Destructuring an element that is not iterable throws
\* a TypeError, which ends the loop with the formats applied so far.
RECURSIVE forEach(_, _, _)
forEach(d, es, i) ==
    IF i > Len(es) THEN [doc |-> d, threw |-> FALSE]
    ELSE IF es[i].k = "notIterable" THEN [doc |-> d, threw |-> TRUE]
    ELSE IF es[i].k = "pair" /\ es[i].length > 0
         THEN forEach(formatText(d, es[i].start, es[i].length, TRUE), es, i + 1)
    ELSE forEach(d, es, i + 1)

\* The guard of handleTextSubmit: quillRef.current && result &&
\* Array.isArray(result).
\* The guard without the test of quillRef.current.
GuardNoRef(ref, result) == result.shape = "array"

Guard(ref, result) == ref /\ result.shape = "array"

\* The body of the guarded block: remove every highlight over the current
\* text, then apply the tuples.
\* The block without its first formatText call.
ReconcileNoClear(d, result) == forEach(d, result.elems, 1)

\* The block with the first formatText call starting one character late.
ReconcileClearFromOne(d, result) ==
    forEach(formatText(d, 1, Len(getText(d)), FALSE), result.elems, 1)

\* The block flipping the highlight of each tuple instead of resetting.
RECURSIVE flipEach(_, _, _)
flipEach(d, es, i) ==
    IF i > Len(es) THEN [doc |-> d, threw |-> FALSE]
    ELSE IF es[i].k = "notIterable" THEN [doc |-> d, threw |-> TRUE]
    ELSE IF es[i].k = "pair" /\ es[i].length > 0
         THEN flipEach([p \in 1..Len(d) |->
                          IF es[i].start <= p - 1 /\ p - 1 < es[i].start + es[i].length
                             /\ d[p].ch # "\n"
                          THEN [d[p] EXCEPT !.hl = ~d[p].hl]
                          ELSE d[p]], es, i + 1)
    ELSE flipEach(d, es, i + 1)

ReconcileToggle(d, result) == flipEach(d, result.elems, 1)

Reconcile(d, result) ==
    forEach(formatText(d, 0, Len(getText(d)), FALSE), result.elems, 1)

\* handleTextSubmit from the decoded result on.
Resume(d, ref, result) ==
    IF Guard(ref, result)
    THEN LET r == Reconcile(d, result)
         IN [doc |-> r.doc, kind |-> IF r.threw THEN "threw" ELSE "applied"]
    ELSE [doc |-> d, kind |-> "ignored"]

\* -------------------------------------------------------- scorer's answers
\* The spans a scorer can name against a text of length n, and the bodies
\* it can send.
Spans(n) == {Pair(s, l) : s \in (0 - 1)..n, l \in 0..MaxSpanLen}
Elems(n) == Spans(n) \cup {NotNumbers, NotIterable}

Lists(S, m) == UNION {[1..k -> S] : k \in 0..m}

Results(n, m) == {Array(es) : es \in Lists(Elems(n), m)} \cup {Object, Null}

\* ------------------------------------------------------------------ state
\* doc       the contents of the Quill instance
\* quillRef  TRUE while quillRef.current holds the instance, FALSE once the
\*           cleanup of Editor's effect has set it to null
\* req       the calls of handleTextSubmit, in the order of the gestures:
\*           pc is where the call stands ("fetch": awaiting fetch, "json":
\*           awaiting response.json(), "done": returned), text the argument,
\*           status the status of the response the call holds while it
\*           awaits the body ("ok" or "failed", "none" when it holds no
\*           response), sent the number of fetch calls made, reported
\*           whether console.error ran, outcome how the call ended
\* edits     the number of edits the user has made
\* clicks    the number of clicks the user has made
\* last      the last step that touched or could touch the document: a
\*           returned call (with the status and the decoded result it
\*           had), an edit or a click; hlBefore tells whether anything was
\*           highlighted before the step
\* rerender  TRUE when a change notification has set the state of App
\*           (setLastChange, setRange) and the render it schedules has not
\*           run yet
NoSel == 0 - 1

Step(kind, id, status, result, before, target, sel) ==
    [kind |-> kind, id |-> id, status |-> status, result |-> result,
     hlBefore |-> Highlighted(before) # {}, target |-> target, sel |-> sel]

Init ==
    /\ doc = DefaultValue
    /\ quillRef = TRUE
    /\ req = <<>>
    /\ edits = 0
    /\ clicks = 0
    /\ last = Step("init", 0, "none", NoResult, <<>>, NoSel, NoSel)
    /\ rerender = FALSE

\* The keydown listener that lets a press through only when no call of
\* handleTextSubmit is still awaiting.
SubmitDebounced ==
    /\ quillRef
    /\ Len(req) + edits + clicks < MaxGestures
    /\ \A i \in 1..Len(req) : req[i].pc = "done"
    /\ req' = Append(req, [pc |-> "fetch", text |-> getText(doc), status |-> "none",
                           sent |-> 1, reported |-> FALSE, outcome |-> "pending"])
    /\ UNCHANGED <<doc, quillRef, edits, clicks, last, rerender>>

\* Ctrl+Enter: the keydown listener reads quill.getText() and calls
\* onSubmit, which is handleTextSubmit; it runs up to its first await, the
\* fetch.
Submit ==
    /\ quillRef
    /\ Len(req) + edits + clicks < MaxGestures
    /\ req' = Append(req, [pc |-> "fetch", text |-> getText(doc), status |-> "none",
                           sent |-> 1, reported |-> FALSE, outcome |-> "pending"])
    /\ UNCHANGED <<doc, quillRef, edits, clicks, last, rerender>>

\* The fetch resolves with a response of some status; the call goes on to
\* await response.json().
FetchResolve(i, status) ==
    /\ req[i].pc = "fetch"
    /\ req' = [req EXCEPT ![i].pc = "json", ![i].status = status]
    /\ UNCHANGED <<doc, quillRef, edits, clicks, last, rerender>>

\* The fetch rejects and the call fetches once more before it gives up.
FetchRejectRetry(i) ==
    /\ req[i].pc = "fetch"
    /\ IF req[i].sent < 2
       THEN /\ req' = [req EXCEPT ![i].sent = @ + 1]
            /\ UNCHANGED last
       ELSE /\ req' = [req EXCEPT ![i].pc = "done", ![i].reported = TRUE,
                                  ![i].outcome = "transport"]
            /\ last' = Step("transport", i, "none", NoResult, doc, NoSel, NoSel)
    /\ UNCHANGED <<doc, quillRef, edits, clicks, rerender>>

\* The fetch rejects: the catch block reports the error.
FetchReject(i) ==
    /\ req[i].pc = "fetch"
    /\ req' = [req EXCEPT ![i].pc = "done", ![i].reported = TRUE,
                          ![i].outcome = "transport"]
    /\ last' = Step("transport", i, "none", NoResult, doc, NoSel, NoSel)
    /\ UNCHANGED <<doc, quillRef, edits, clicks, rerender>>

\* response.json() rejects (the body is not JSON): the catch block reports.
JsonReject(i) ==
    /\ req[i].pc = "json"
    /\ req' = [req EXCEPT ![i].pc = "done", ![i].status = "none",
                          ![i].reported = TRUE, ![i].outcome = "decode"]
    /\ last' = Step("decode", i, req[i].status, NoResult, doc, NoSel, NoSel)
    /\ UNCHANGED <<doc, quillRef, edits, clicks, rerender>>

\* Quill emits TEXT_CHANGE from every formatText call that changes the
\* document, and the listener of Editor passes it to onTextChange, which is
\* setLastChange.  The block emits when its first call removes a highlight
\* or a later call adds one: after is the document the block leaves.
TextChange(d, ref, result, after) ==
    Guard(ref, result) /\ (Highlighted(d) # {} \/ Highlighted(after) # {})

\* The call keeping the character of the last dismissal unhighlighted.
JsonResolveSticky(i, result) ==
    /\ req[i].pc = "json"
    /\ LET r == Resume(doc, quillRef, result)
           kept == IF last.kind = "click"
                   THEN formatText(r.doc, last.sel, 1, FALSE) ELSE r.doc
       IN /\ doc' = kept
          /\ req' = [req EXCEPT ![i].pc = "done", ![i].status = "none",
                                ![i].reported = (r.kind = "threw"),
                                ![i].outcome = r.kind]
          /\ last' = Step(r.kind, i, req[i].status, result, doc, NoSel, NoSel)
          /\ rerender' = (rerender \/ TextChange(doc, quillRef, result, kept))
    /\ UNCHANGED <<quillRef, edits, clicks>>

\* response.json() resolves with result: the rest of the try block runs,
\* and the catch block if the loop throws.
JsonResolve(i, result) ==
    /\ req[i].pc = "json"
    /\ LET r == Resume(doc, quillRef, result)
       IN /\ doc' = r.doc
          /\ req' = [req EXCEPT ![i].pc = "done", ![i].status = "none",
                                ![i].reported = (r.kind = "threw"),
                                ![i].outcome = r.kind]
          /\ last' = Step(r.kind, i, req[i].status, result, doc, NoSel, NoSel)
          /\ rerender' = (rerender \/ TextChange(doc, quillRef, result, r.doc))
    /\ UNCHANGED <<quillRef, edits, clicks>>

\* The click listener.  The user clicks the character at index target; the
\* element clicked carries the class ql-highlight exactly when that
\* character is highlighted (Quill nests the highlight span innermost).
\* sel is the index of quill.getSelection(): the caret lands before or after
\* the clicked character, or there is no selection (NoSel).  moved tells
\* whether the click moved the selection, in which case Quill emits
\* SELECTION_CHANGE and the listener of Editor calls setRange; a dismissal
\* emits TEXT_CHANGE.
\* The listener without the test of the class of the target.
DismissAnyTarget(d, target, sel) ==
    IF sel = NoSel THEN [doc |-> d, kind |-> "clickNoRange"]
    ELSE LET leaf == getLeaf(d, sel)
         IN IF ~leaf.found
            THEN [doc |-> d, kind |-> "clickThrew"]
            ELSE [doc |-> formatText(d, leaf.index, leaf.length, FALSE),
                  kind |-> "click"]

Dismiss(d, target, sel) ==
    IF ~d[target + 1].hl THEN [doc |-> d, kind |-> "clickOther"]
    ELSE IF sel = NoSel THEN [doc |-> d, kind |-> "clickNoRange"]
    ELSE LET leaf == getLeaf(d, sel)
         IN IF ~leaf.found
            THEN [doc |-> d, kind |-> "clickThrew"]   \* leaf is null: TypeError
            ELSE [doc |-> formatText(d, leaf.index, leaf.length, FALSE),
                  kind |-> "click"]

Click(target, sel, moved) ==
    /\ quillRef
    /\ Len(req) + edits + clicks < MaxGestures
    /\ target \in 0..(Len(doc) - 1)
    /\ sel \in {NoSel, target, target + 1}
    /\ LET r == Dismiss(doc, target, sel)
       IN /\ doc' = r.doc
          /\ last' = IF r.kind = "clickOther"
                     THEN Step(r.kind, 0, "none", NoResult, doc, NoSel, NoSel)
                     ELSE Step(r.kind, 0, "none", NoResult, doc, target, sel)
          /\ rerender' = (rerender \/ r.doc # doc \/ (moved /\ sel # NoSel))
    /\ UNCHANGED <<quillRef, req, edits>>
    /\ clicks' = clicks + 1

\* The user types a character at index pos.  It joins the text before the
\* caret and takes its formats; at the start of a line it joins the text
\* after the caret; on an empty line it is plain.
Typed(d, pos) ==
    IF pos > 0 /\ d[pos].ch # "\n" THEN Ch("c", d[pos].fmt, d[pos].hl)
    ELSE IF d[pos + 1].ch # "\n" THEN Ch("c", d[pos + 1].fmt, d[pos + 1].hl)
    ELSE Ch("c", "none", FALSE)

InsertChar(pos) ==
    /\ quillRef
    /\ Len(req) + edits + clicks < MaxGestures
    /\ pos \in 0..(Len(doc) - 1)
    /\ doc' = SubSeq(doc, 1, pos) \o <<Typed(doc, pos)>> \o SubSeq(doc, pos + 1, Len(doc))
    /\ edits' = edits + 1
    /\ last' = Step("edit", 0, "none", NoResult, doc, NoSel, NoSel)
    /\ rerender' = TRUE
    /\ UNCHANGED <<quillRef, req, clicks>>

\* The user deletes the character at index pos; the line break that ends
\* the document cannot be deleted.
DeleteChar(pos) ==
    /\ quillRef
    /\ Len(req) + edits + clicks < MaxGestures
    /\ pos \in 0..(Len(doc) - 2)
    /\ doc' = SubSeq(doc, 1, pos) \o SubSeq(doc, pos + 2, Len(doc))
    /\ edits' = edits + 1
    /\ last' = Step("edit", 0, "none", NoResult, doc, NoSel, NoSel)
    /\ rerender' = TRUE
    /\ UNCHANGED <<quillRef, req, clicks>>

\* The cleanup of Editor's effect: ref.current = null and the container is
\* emptied, so no listener fires again.
Unmount ==
    /\ quillRef
    /\ quillRef' = FALSE
    /\ UNCHANGED <<doc, req, edits, clicks, last, rerender>>

\* App renders again after setLastChange or setRange, and Editor with it.
\* The layout effect stores the callbacks in their refs; the effect that
\* creates the Quill instance depends on [ref] alone and ref is the same
\* object on every render, so it does not run again, and defaultValue is
\* read only from the ref filled on the first render.
\* The render with the effect running again: a new Quill instance filled
\* with the default value.
RenderRemount ==
    /\ quillRef
    /\ rerender
    /\ rerender' = FALSE
    /\ doc' = DefaultValue
    /\ UNCHANGED <<quillRef, req, edits, clicks, last>>

Render ==
    /\ quillRef
    /\ rerender
    /\ rerender' = FALSE
    /\ UNCHANGED <<doc, quillRef, req, edits, clicks, last>>

Next ==
    \/ Submit
    \/ \E i \in 1..Len(req), status \in {"ok", "failed"} : FetchResolve(i, status)
    \/ \E i \in 1..Len(req) : FetchReject(i)
    \/ \E i \in 1..Len(req) : JsonReject(i)
    \/ \E i \in 1..Len(req), result \in Results(Len(doc), 1) : JsonResolve(i, result)
    \/ \E target \in 0..(Len(doc) - 1), sel \in (0 - 1)..Len(doc), moved \in BOOLEAN :
          Click(target, sel, moved)
    \/ \E pos \in 0..(Len(doc) - 1) : InsertChar(pos)
    \/ \E pos \in 0..(Len(doc) - 1) : DeleteChar(pos)
    \/ Unmount
    \/ Render

Spec == Init /\ [][Next]_vars

\* ------------------------------------------------ reconciliation on its own
\* The reconciliation as a function of the document and the answer: the
\* default text with nothing or any one stretch of it highlighted (the
\* default document is one of these), one submission after the other,
\* successful responses, bodies of up to MaxSpans elements.  The text never
\* changes here, and the scorer answers the same text the same way: the
\* first answer is free, a later one repeats it.
ApplyDocs ==
    {[p \in 1..Len(DefaultValue) |->
         [DefaultValue[p] EXCEPT !.hl = (DefaultValue[p].ch # "\n" /\ a <= p - 1 /\ p - 1 < b)]] :
        a, b \in 0..Len(DefaultValue)}

InitApply ==
    /\ doc \in ApplyDocs
    /\ quillRef = TRUE
    /\ req = <<>>
    /\ edits = 0
    /\ clicks = 0
    /\ last = Step("init", 0, "none", NoResult, <<>>, NoSel, NoSel)
    /\ rerender = FALSE

ApplyResults == Results(Len(DefaultValue), MaxSpans)

Answers == IF last.kind = "init" THEN ApplyResults ELSE {last.result}

NextApply ==
    \/ Submit /\ \A i \in 1..Len(req) : req[i].pc = "done"
    \/ \E i \in 1..Len(req) : FetchResolve(i, "ok")
    \/ \E i \in 1..Len(req), result \in Answers : JsonResolve(i, result)

SpecApply == InitApply /\ [][NextApply]_vars

\* ------------------------------------------------------------- properties
Elem(j) == last.result.elems[j]
Idx == 1..Len(last.result.elems)

\* A span as the spec defines it against a text of length n.
ValidSpan(e, n) ==
    e.k = "pair" /\ e.start >= 0 /\ e.length > 0 /\ e.start + e.length <= n

Covers(e, i) == e.start <= i /\ i < e.start + e.length

Disjoint(es) ==
    \A j, k \in 1..Len(es) :
        j < k => (es[j].start + es[j].length <= es[k].start
                  \/ es[k].start + es[k].length <= es[j].start)

\* Every element is a pair of two numbers.
WellFormed(r) == r.shape = "array" /\ \A j \in 1..Len(r.elems) : r.elems[j].k = "pair"

\* The last step applied a successful response and nothing touched the
\* document since.
Applied == last.kind = "applied" /\ last.status = "ok"

\* The call of request i returns in this step, with a decoded body.
Returns(i) == req[i].pc = "json" /\ req'[i].pc = "done" /\ last'.kind # "decode"

\* This step is a click that reached formatText.
ClickStep ==
    last'.kind = "click" /\ clicks' = clicks + 1

\* C1, as claimed: after a successful response of pairwise disjoint spans
\* inside the text, index i is highlighted iff some span covers i.
C1Case ==
    /\ Applied
    /\ \A j \in Idx : ValidSpan(Elem(j), Len(doc))
    /\ Disjoint(last.result.elems)

CoverageExactAsClaimed ==
    C1Case => \A i \in 0..(Len(doc) - 1) :
                  doc[i + 1].hl <=> \E j \in Idx : Covers(Elem(j), i)

\* C1, amended: after a successful response of pairwise disjoint spans
\* inside the text, index i is highlighted iff some span covers i and the
\* character at i is not a line break, whatever was highlighted before.
CoverageExact ==
    C1Case => \A i \in 0..(Len(doc) - 1) :
                  doc[i + 1].hl <=> (doc[i + 1].ch # "\n" /\ \E j \in Idx : Covers(Elem(j), i))

CoverageExactWitness ==
    /\ C1Case
    /\ Len(last.result.elems) = 2
    /\ last.hlBefore
    /\ \E i \in 0..(Len(doc) - 1) : doc[i + 1].ch = "\n" /\ \E j \in Idx : Covers(Elem(j), i)
    /\ \E i \in 0..(Len(doc) - 1) : doc[i + 1].hl
    /\ \E i \in 0..(Len(doc) - 1) : doc[i + 1].ch # "\n" /\ ~doc[i + 1].hl

\* C2, as claimed: a span that starts inside the text and ends past it is
\* skipped, so every highlighted index is covered by a span that ends
\* inside the text.
C2Case ==
    /\ Applied
    /\ \A j \in Idx : /\ Elem(j).k = "pair"
                      /\ 0 <= Elem(j).start /\ Elem(j).start < Len(doc)
                      /\ Elem(j).length > 0

OutOfBoundsDropped ==
    C2Case => \A i \in Highlighted(doc) :
                  \E j \in Idx : ValidSpan(Elem(j), Len(doc)) /\ Covers(Elem(j), i)

\* C3, as claimed: a call that returns from a successful response whose
\* body is not an array of pairs of numbers leaves the document as it was.
Malformed(r) == ~WellFormed(r)

MalformedNoMutation ==
    [][\A i \in 1..Len(req) :
          (Returns(i) /\ req[i].status = "ok" /\ Malformed(last'.result))
              => doc' = doc]_vars

\* C4: after a well-formed response has been applied, the highlights are
\* those its own spans paint on the current text, whatever the responses
\* applied before it left, also when it answers the earlier submission.
Painted(e, d) ==
    IF e.k # "pair" \/ e.length <= 0 THEN {}
    ELSE {i \in 0..(Len(d) - 1) : d[i + 1].ch # "\n" /\ Covers(e, i)}

LastToResolveWins ==
    (last.kind = "applied" /\ WellFormed(last.result))
        => Highlighted(doc) = UNION {Painted(Elem(j), doc) : j \in Idx}

LastToResolveWinsWitness ==
    /\ last.kind = "applied" /\ WellFormed(last.result)
    /\ Len(req) = 2 /\ last.id = 1
    /\ req[2].outcome = "applied"
    /\ last.hlBefore
    /\ Highlighted(doc) # {}
    /\ edits = 0

\* C5, as claimed: a click with the selection inside a highlighted range
\* removes the highlight of the whole maximal contiguous highlighted range
\* and of nothing else (stated for the clicks that do not follow a response
\* of non-success status).
Between(p, q) == Min(p, q)..Max(p, q)

HighlightRange(d, s) ==
    {p \in 0..(Len(d) - 1) : \A q \in Between(p, s) : d[q + 1].hl}

Dismissing == ClickStep /\ doc[last'.sel + 1].hl

Run(d, s) ==
    {p \in 0..(Len(d) - 1) : \A q \in Between(p, s) : SameLeaf(d[q + 1], d[s + 1])}

ErrorStatusNoMutation ==
    [][\A i \in 1..Len(req) :
          (req[i].pc = "json" /\ req[i].status = "failed" /\ req'[i].pc = "done")
              => doc' = doc]_vars

\* C7: a call that ends with a rejected fetch or an undecodable body leaves
\* the document as it was and reports the error; every call makes exactly
\* one fetch, and a call that has returned never acts again.
Fails(i) ==
    req[i].pc # "done" /\ req'[i].pc = "done" /\ req'[i].outcome \in {"transport", "decode"}

FailureNoMutationNoRetry ==
    [][\A i \in 1..Len(req) :
          /\ Fails(i) => (doc' = doc /\ req'[i].reported)
          /\ req[i].sent = 1 /\ req'[i].sent = 1
          /\ req[i].pc = "done" => req'[i] = req[i]]_vars

FailureNoMutationNoRetryWitness ==
    /\ Len(req) = 2
    /\ {req[1].outcome, req[2].outcome} = {"transport", "decode"}
    /\ Highlighted(doc) # {}

\* C8: after a successful response with an empty span list nothing is
\* highlighted, whatever was highlighted before (the highlight of the
\* default document included).
FullReset ==
    (Applied /\ last.result.elems = <<>>) => Highlighted(doc) = {}

FullResetWitness ==
    Applied /\ last.result.elems = <<>> /\ last.hlBefore /\ Len(req) = 1

\* C9: when the response applied right after a response is the same list
\* of valid spans, the step leaves the document as the first one left it.
SameAgain ==
    /\ last.kind = "applied" /\ last'.kind = "applied"
    /\ last'.id # last.id
    /\ last'.result = last.result
    /\ \A j \in Idx : ValidSpan(Elem(j), Len(doc))

Idempotent == [][SameAgain => doc' = doc]_vars

IdempotentWitness ==
    /\ Applied /\ last.id = 2
    /\ req[1].outcome = "applied"
    /\ Len(last.result.elems) >= 1
    /\ \A j \in Idx : ValidSpan(Elem(j), Len(doc))

\* C10: once quillRef.current is null no step changes the document, and a
\* call whose body is decoded then returns without touching it and without
\* an error.
NoOpAfterTeardown ==
    [][~quillRef =>
          /\ doc' = doc
          /\ \A i \in 1..Len(req) :
                Returns(i) => (req'[i].outcome = "ignored" /\ ~req'[i].reported)]_vars

NoOpAfterTeardownWitness ==
    /\ ~quillRef
    /\ last.kind = "ignored"
    /\ last.result.shape = "array"
    /\ \E j \in Idx : ValidSpan(Elem(j), Len(doc))
    /\ Highlighted(doc) # {}

\* C11: while the editor is mounted a press of Ctrl+Enter is always taken,
\* whatever the earlier calls are doing; the press adds exactly one call
\* that holds the text of the document at that moment and has made one
\* fetch, and leaves the earlier calls as they were; nothing else adds or
\* removes a call.
CanPress == quillRef /\ Len(req) + edits + clicks < MaxGestures

InFlight(r) == r.pc # "done"

SubmitGesture ==
    /\ [](CanPress => ENABLED Submit)
    /\ [][Len(req') # Len(req) =>
            /\ Len(req') = Len(req) + 1
            /\ SubSeq(req', 1, Len(req)) = req
            /\ req'[Len(req')].text = getText(doc)
            /\ req'[Len(req')].sent = 1
            /\ InFlight(req'[Len(req')])
            /\ doc' = doc]_vars

SubmitGestureWitness ==
    /\ Len(req) = 2
    /\ req[1].pc = "json" /\ req[2].pc = "fetch"
    /\ req[2].text = getText(doc)

\* C12, as claimed: every call returns, whatever the round trip gave and
\* whatever happened in between, and a call that ends in an error (the
\* catch block ran) leaves the document as it was before that outcome was
\* processed (stated for the calls that do not hold a response of
\* non-success status).
Completes(i) == req[i].pc # "done" /\ req'[i].pc = "done"

NoUnrecoverableFault ==
    [][\A i \in 1..Len(req) :
          Completes(i) =>
              /\ req'[i].outcome \in {"transport", "decode", "applied", "threw", "ignored"}
              /\ (req'[i].reported /\ req[i].status # "failed") => doc' = doc]_vars

\* C13, as claimed: in a successful response of pairs of numbers whose
\* elements are either valid spans or spans with a negative start or a
\* length <= 0, the latter highlight nothing and the valid ones are applied:
\* the highlighted indices are the text characters the valid spans cover.
Invalid(e) == e.k = "pair" /\ (e.start < 0 \/ e.length <= 0)

C13Case ==
    /\ Applied
    /\ \A j \in Idx : ValidSpan(Elem(j), Len(doc)) \/ Invalid(Elem(j))

InvalidSpansSkipped ==
    C13Case => \A i \in 0..(Len(doc) - 1) :
                  doc[i + 1].hl <=>
                      /\ doc[i + 1].ch # "\n"
                      /\ \E j \in Idx : ValidSpan(Elem(j), Len(doc)) /\ Covers(Elem(j), i)

\* C14: when a response of pairs of numbers is applied to a text the user
\* has changed since the submission, every highlighted index is inside the
\* current text and inside some span of that response, so no earlier
\* highlight survives outside the spans; the highlights removed are those
\* of the current text, up to its current length.
Stale == Applied /\ WellFormed(last.result) /\ Len(req[last.id].text) # Len(doc)

AnyClick == clicks' = clicks + 1

ClickGuard ==
    [][AnyClick =>
          /\ getText(doc') = getText(doc)
          /\ Highlighted(doc') \subseteq Highlighted(doc)
          /\ last'.kind \in {"clickOther", "clickNoRange"} => doc' = doc
          /\ doc' # doc => /\ last'.kind = "click"
                           /\ doc[last'.target + 1].hl
                           /\ last'.sel # NoSel]_vars

ClickGuardWitness ==
    /\ last.kind = "clickNoRange"
    /\ doc[last.target + 1].hl
    /\ clicks = 2

\* C16: a call that returns and a click leave the text, its length and the
\* other format of every character as they were.
OverlayStep == AnyClick \/ \E i \in 1..Len(req) : Completes(i)

FrameOfOverlay ==
    [][OverlayStep =>
          /\ Len(doc') = Len(doc)
          /\ \A p \in 1..Len(doc) : doc'[p].ch = doc[p].ch /\ doc'[p].fmt = doc[p].fmt]_vars

FrameOfOverlayWitness ==
    /\ last.kind = "click"
    /\ req # <<>> /\ req[1].outcome = "applied"
    /\ \E p \in 1..Len(doc) : doc[p].hl /\ doc[p].fmt = "bold"
    /\ \E p \in 1..Len(doc) : ~doc[p].hl /\ doc[p].fmt = "underline"

\* C17: when a successful response is applied right after a dismissal and
\* one of its valid spans covers the index whose run was dismissed, that
\* index is highlighted again, whether the call was made before or after
\* the click.
Rehighlights ==
    /\ last.kind = "click"
    /\ last'.kind = "applied" /\ last'.status = "ok"
    /\ \E j \in 1..Len(last'.result.elems) :
          ValidSpan(last'.result.elems[j], Len(doc)) /\ Covers(last'.result.elems[j], last.sel)

DismissalNotSticky == [][Rehighlights => doc'[last.sel + 1].hl]_vars

DismissalNotStickyWitness ==
    /\ Applied
    /\ clicks = 1 /\ edits = 0 /\ Len(req) = 1
    /\ ~last.hlBefore
    /\ Highlighted(DefaultValue) \subseteq Highlighted(doc)

\* C18: the render that follows a change notification leaves the document,
\* its highlights, the Quill instance and the calls as they were; the
\* notifications themselves only schedule that render.
RenderStep == rerender /\ ~rerender'

Observational ==
    [][/\ RenderStep => (doc' = doc /\ quillRef' = quillRef /\ req' = req)
       /\ (rerender' # rerender /\ ~RenderStep) => (rerender' /\ quillRef' = quillRef)]_vars

ObservationalWitness ==
    /\ ~rerender
    /\ quillRef
    /\ last.kind = "applied"
    /\ edits = 1
    /\ Len(doc) # Len(DefaultValue)
    /\ Highlighted(doc) # {} /\ Highlighted(doc) # Highlighted(DefaultValue)

====
